---- MODULE Spec2Model ----
(***************************************************************************)
(* Model of scripts/bitrix_course_parser_standalone.py: the streaming      *)
(* Markdown extractor (MarkdownExtractorParser), its renderer              *)
(* (get_markdown_content) and the crawl coordinator                        *)
(* (BitrixCourseParser.parse_course, run from main).                       *)
(*                                                                         *)
(* Python strings are sequences of one-character strings, so that strip,   *)
(* len, startswith and the substring test `in` are computed, not assumed.  *)
(***************************************************************************)
EXTENDS Integers, Sequences, FiniteSets, TLC

(***************************************************************************)
(* Bounds of the model.                                                    *)
(***************************************************************************)
\* number of scanner events fed freely to one extractor
MaxEvents == 7
\* number of raw lesson hrefs collected on the root page
MaxLinks == 3
\* number of distinct lesson URLs besides the root URL
MaxUrl == 2
\* largest page limit tried (besides None)
MaxLimit == 2
MaxRaw == 4
MaxCalls == 2
\* number of start tags on a root page scanned for lesson links
MaxAnchors == 2

(***************************************************************************)
(* Python string helpers.                                                  *)
(***************************************************************************)
None == "None"

Whitespace == {" ", "\n", "\t"}

RECURSIVE lstrip(_)
lstrip(s) ==
    IF s # <<>> /\ Head(s) \in Whitespace THEN lstrip(Tail(s)) ELSE s

RECURSIVE rstrip(_)
rstrip(s) ==
    IF s # <<>> /\ s[Len(s)] \in Whitespace
    THEN rstrip(SubSeq(s, 1, Len(s) - 1))
    ELSE s

\* str.strip()
strip(s) == rstrip(lstrip(s))

\* str.startswith(prefix)
startswith(s, prefix) ==
    Len(s) >= Len(prefix) /\ SubSeq(s, 1, Len(prefix)) = prefix

\* needle in hay  (substring test on strings)
contains(hay, needle) ==
    \E i \in 1..(Len(hay) - Len(needle) + 1) :
        SubSeq(hay, i, i + Len(needle) - 1) = needle

\* c * n
RECURSIVE repeat(_, _)
repeat(c, n) == IF n <= 0 THEN <<>> ELSE <<c>> \o repeat(c, n - 1)

\* 'courses-right-side'
MarkerClass ==
    <<"c","o","u","r","s","e","s","-","r","i","g","h","t","-","s","i","d","e">>

\* 'http'
HttpPrefix == <<"h","t","t","p">>

\* int(tag[1]) for the heading tags
HeadingDigit == [h1 |-> 1, h2 |-> 2, h3 |-> 3, h4 |-> 4, h5 |-> 5, h6 |-> 6]

HeadingTags == {"h1", "h2", "h3", "h4", "h5", "h6"}

(***************************************************************************)
(* MarkdownExtractorParser: the object's fields as a record, each handler  *)
(* as an operator from the object (and the event) to the object after it.  *)
(* An attribute that does not exist (hasattr is false) is NoAttr.          *)
(***************************************************************************)
NoAttr == <<"<no attribute>">>

\* MarkdownExtractorParser.__init__
MarkdownExtractorParser ==
    [ headers                |-> <<>>,
      text_content           |-> <<>>,
      current_tag            |-> None,
      in_script              |-> FALSE,
      in_style               |-> FALSE,
      in_courses_right_side  |-> FALSE,
      div_nesting_level      |-> 0,
      current_link_href      |-> NoAttr,
      current_link_text      |-> NoAttr ]

\* the value the loop `for attr_name, attr_value in attrs` leaves in href:
\* the last href attribute; with none it stays None, which `if href` treats
\* as it treats the empty string, so both are the empty string here
href_of(attrs) ==
    LET idx == {i \in 1..Len(attrs) : attrs[i][1] = "href"}
    IN  IF idx = {} THEN <<>>
        ELSE attrs[CHOOSE i \in idx : \A j \in idx : j <= i][2]

\* the loop that sets has_courses_right_side
has_courses_right_side(attrs) ==
    \E i \in 1..Len(attrs) :
        attrs[i][1] = "class" /\ contains(attrs[i][2], MarkerClass)

\* setattr(self, f'in_{tag}', value) for tag in ['script', 'style']
set_in_tag(self, tag, value) ==
    IF tag = "script" THEN [self EXCEPT !.in_script = value]
    ELSE [self EXCEPT !.in_style = value]

\* handle_starttag, the branch for tag == 'div'
starttag_div(s, attrs) ==
    IF has_courses_right_side(attrs)
    THEN [s EXCEPT !.in_courses_right_side = TRUE, !.div_nesting_level = 1]
    ELSE IF s.in_courses_right_side
         THEN [s EXCEPT !.div_nesting_level = @ + 1]
         ELSE s

\* handle_starttag, the branch for tag == 'a'
starttag_a(s, attrs) ==
    LET href == href_of(attrs)
    IN  IF href # <<>> /\ startswith(href, HttpPrefix)
        THEN [s EXCEPT !.current_link_href = href, !.current_link_text = <<>>]
        ELSE s

handle_starttag(self, tag, attrs) ==
    LET s == [self EXCEPT !.current_tag = tag]
    IN  IF tag \in {"script", "style"} THEN set_in_tag(s, tag, TRUE)
        ELSE IF tag = "div" THEN starttag_div(s, attrs)
        ELSE IF tag = "a" /\ ~s.in_script /\ ~s.in_style THEN starttag_a(s, attrs)
        ELSE s

\* f"{'#' * level} {text}"
header_line(level, text) == repeat("#", level) \o <<" ">> \o text

\* classify_text recording a heading at the level of its tag
classify_text_same_level(self, text) ==
    IF self.current_tag \in HeadingTags
    THEN LET level == HeadingDigit[self.current_tag]
         IN  [self EXCEPT !.headers = Append(@, header_line(level, text))]
    ELSE IF self.current_link_href # NoAttr
    THEN [self EXCEPT !.current_link_text = @ \o text]
    ELSE [self EXCEPT !.text_content = Append(@, text)]

\* handle_data, after the three early returns
classify_text(self, text) ==
    IF self.current_tag \in HeadingTags
    THEN LET level == HeadingDigit[self.current_tag] + 1
         IN  [self EXCEPT !.headers = Append(@, header_line(level, text))]
    ELSE IF self.current_link_href # NoAttr
    THEN [self EXCEPT !.current_link_text = @ \o text]
    ELSE [self EXCEPT !.text_content = Append(@, text)]

\* handle_data recording text whether or not the region is open
handle_data_anywhere(self, data) ==
    IF self.in_script \/ self.in_style THEN self
    ELSE LET text == strip(data)
         IN  IF text = <<>> THEN self
             ELSE classify_text(self, text)

\* handle_data without the test of in_script and in_style
handle_data_in_script(self, data) ==
    LET text == strip(data)
    IN  IF text = <<>> THEN self
        ELSE IF ~self.in_courses_right_side THEN self
        ELSE classify_text(self, text)

handle_data(self, data) ==
    IF self.in_script \/ self.in_style THEN self
    ELSE LET text == strip(data)
         IN  IF text = <<>> THEN self
             ELSE IF ~self.in_courses_right_side THEN self
             ELSE classify_text(self, text)

\* endtag_div that lowers the depth and leaves the region flag alone
endtag_div_keeps_region(self) == [self EXCEPT !.div_nesting_level = @ - 1]

\* handle_endtag, the branch for a div closed inside the region
endtag_div(self) ==
    LET s == [self EXCEPT !.div_nesting_level = @ - 1]
    IN  IF s.div_nesting_level = 0
        THEN [s EXCEPT !.in_courses_right_side = FALSE]
        ELSE s

\* f"**{self.current_link_text.strip()}**"
bold_text(link_text) == <<"*", "*">> \o strip(link_text) \o <<"*", "*">>

\* endtag_a appending the link text as it is
endtag_a_plain(self) ==
    LET s == IF self.current_link_text # <<>>
             THEN [self EXCEPT !.text_content = Append(@, self.current_link_text)]
             ELSE self
    IN  [s EXCEPT !.current_link_href = NoAttr, !.current_link_text = NoAttr]

\* endtag_a appending the bold text also when no text was accumulated
endtag_a_always(self) ==
    LET s == [self EXCEPT
                !.text_content = Append(@, bold_text(self.current_link_text))]
    IN  [s EXCEPT !.current_link_href = NoAttr, !.current_link_text = NoAttr]

\* endtag_a deleting current_link_href only
endtag_a_keeps_text(self) ==
    LET s == IF self.current_link_text # <<>>
             THEN [self EXCEPT
                     !.text_content = Append(@, bold_text(self.current_link_text))]
             ELSE self
    IN  [s EXCEPT !.current_link_href = NoAttr]

\* handle_endtag, the branch for an anchor closed with a pending link
endtag_a(self) ==
    LET s == IF self.current_link_text # <<>>
             THEN [self EXCEPT
                     !.text_content = Append(@, bold_text(self.current_link_text))]
             ELSE self
    IN  [s EXCEPT !.current_link_href = NoAttr, !.current_link_text = NoAttr]

handle_endtag(self, tag) ==
    LET s == IF tag \in {"script", "style"} THEN set_in_tag(self, tag, FALSE)
             ELSE IF tag = "div" /\ self.in_courses_right_side THEN endtag_div(self)
             ELSE IF tag = "a" /\ self.current_link_href # NoAttr THEN endtag_a(self)
             ELSE self
    IN  [s EXCEPT !.current_tag = None]

(***************************************************************************)
(* Scanner events, as html.parser.HTMLParser hands them to the handlers.   *)
(***************************************************************************)
StartTag(tag, attrs) == [kind |-> "start", tag |-> tag, attrs |-> attrs, data |-> <<>>]
EndTag(tag) == [kind |-> "end", tag |-> tag, attrs |-> <<>>, data |-> <<>>]
Text(data) == [kind |-> "data", tag |-> None, attrs |-> <<>>, data |-> data]

\* HTMLParser's dispatch of one event to its handler
dispatch(self, e) ==
    IF e.kind = "start" THEN handle_starttag(self, e.tag, e.attrs)
    ELSE IF e.kind = "end" THEN handle_endtag(self, e.tag)
    ELSE handle_data(self, e.data)

\* md_parser.feed(content): every event of the page, in document order
RECURSIVE feed(_, _)
feed(self, content) ==
    IF content = <<>> THEN self
    ELSE feed(dispatch(self, Head(content)), Tail(content))

\* has_courses_right_side_content
has_courses_right_side_content(self) ==
    self.headers # <<>> \/ self.text_content # <<>>

(***************************************************************************)
(* get_markdown_content: the rendered document as its list of lines        *)
(* (md_lines, before '\n'.join).  The fixed lines of the template are      *)
(* one-token strings, the Russian section titles in English.               *)
(***************************************************************************)
\* is_header comparing the line with the whole header line
is_header_whole_line(line, headers) ==
    \E i \in 1..Len(headers) : headers[i] = line

\* the inner loop `for header in self.headers: if line in header`
is_header(line, headers) ==
    \E i \in 1..Len(headers) : contains(headers[i], line)

\* cleaned_lines without the length test `len(line) > 1`
RECURSIVE cleaned_lines_any_length(_, _)
cleaned_lines_any_length(text_content, headers) ==
    IF text_content = <<>> THEN <<>>
    ELSE LET line == strip(Head(text_content))
             rest == cleaned_lines_any_length(Tail(text_content), headers)
         IN  IF line # <<>> /\ ~is_header(line, headers)
             THEN <<line>> \o rest
             ELSE rest

\* the loop that fills cleaned_lines from self.text_content
RECURSIVE cleaned_lines(_, _)
cleaned_lines(text_content, headers) ==
    IF text_content = <<>> THEN <<>>
    ELSE LET line == strip(Head(text_content))
             rest == cleaned_lines(Tail(text_content), headers)
         IN  IF line # <<>> /\ Len(line) > 1 /\ ~is_header(line, headers)
             THEN <<line>> \o rest
             ELSE rest

MainTextHeader == <<"### Main text">>

get_markdown_content(self, url, title) ==
    << <<"# ">> \o title, <<>>,
       <<"## Metadata">>, <<>>,
       <<"- **URL:** ">> \o url, <<>>,
       <<"---">>, <<>>,
       <<"## Content">>, <<>> >>
    \o (IF self.headers # <<>> THEN self.headers \o << <<>> >> ELSE <<>>)
    \o (IF self.text_content # <<>>
        THEN <<MainTextHeader, <<>> >>
             \o cleaned_lines(self.text_content, self.headers)
        ELSE <<>>)

(***************************************************************************)
(* BitrixCourseParser: URLs, the lesson list and the storage.              *)
(***************************************************************************)
\* the scheme and host of the start URL (base_url in extract_course_info)
base_url == <<"h","t","t","p",":","/","/","h">>

\* self.start_url
start_url == base_url \o <<"/","c">>

LESSON_ID == <<"L","E","S","S","O","N","_","I","D">>
CHAPTER_ID == <<"C","H","A","P","T","E","R","_","I","D">>
COURSE_ID == <<"C","O","U","R","S","E","_","I","D">>

DigitChar == <<"1","2","3","4","5","6","7","8","9">>

\* a path-absolute href of lesson n, and the href of the start page itself
LessonPath(n) == <<"/","l", DigitChar[n]>>
RootPath == <<"/","c">>

\* the hrefs SimpleHTMLParser may have collected on the root page:
\* path-absolute ones, an absolute one and a relative one
Hrefs ==
    {RootPath} \cup {LessonPath(n) : n \in 1..MaxUrl}
               \cup {base_url \o LessonPath(1), <<"l", DigitChar[1]>>}

RECURSIVE SeqsUpTo(_, _)
SeqsUpTo(S, n) ==
    IF n = 0 THEN {<<>>}
    ELSE LET shorter == SeqsUpTo(S, n - 1)
         IN  shorter \cup {Append(q, x) : q \in {r \in shorter : Len(r) = n - 1}, x \in S}

\* a root page that lists five distinct lessons
FiveLessons == [n \in 1..5 |-> LessonPath(n)]

\* a root page that links one lesson under two addresses:
\* /l?LESSON_ID=5 and /m?LESSON_ID=5
SameLessonTwice ==
    << <<"/","l","?">> \o LESSON_ID \o <<"=","5">>,
       <<"/","m","?">> \o LESSON_ID \o <<"=","5">> >>

\* the values parser.links may have after the root page was fed
LinkLists == SeqsUpTo(Hrefs, MaxLinks) \cup {FiveLessons, SameLessonTwice}

\* a URL up to and including its last "/"
RECURSIVE dirname(_)
dirname(u) ==
    IF u = <<>> \/ u[Len(u)] = "/" THEN u
    ELSE dirname(SubSeq(u, 1, Len(u) - 1))

\* str.endswith
endswith(s, suffix) ==
    Len(suffix) <= Len(s) /\ SubSeq(s, Len(s) - Len(suffix) + 1, Len(s)) = suffix

\* str.find + 1: the position of the first c in s, 0 when there is none
find(s, c) ==
    IF \E k \in 1..Len(s) : s[k] = c
    THEN CHOOSE k \in 1..Len(s) : s[k] = c /\ \A j \in 1..(k - 1) : s[j] # c
    ELSE 0

\* s up to its first c (all of s when there is none), and what follows it
str_before(s, c) == IF find(s, c) = 0 THEN s ELSE SubSeq(s, 1, find(s, c) - 1)
str_after(s, c) == IF find(s, c) = 0 THEN <<>> ELSE SubSeq(s, find(s, c) + 1, Len(s))

\* str.split(c)
RECURSIVE split(_, _)
split(s, c) ==
    IF find(s, c) = 0 THEN <<s>> ELSE <<str_before(s, c)>> \o split(str_after(s, c), c)

\* str.lower for the letters that occur in the hrefs of the model
UpperCase == <<"L","E","S","O","N","C","H","A","P","T","R","I","D","J">>
LowerCase == <<"l","e","s","o","n","c","h","a","p","t","r","i","d","j">>
lower_char(c) ==
    IF \E k \in 1..Len(UpperCase) : UpperCase[k] = c
    THEN LowerCase[CHOOSE k \in 1..Len(UpperCase) : UpperCase[k] = c]
    ELSE c
lower(s) == [k \in 1..Len(s) |-> lower_char(s[k])]

\* urllib.parse.urlsplit: the fragment starts at the first "#", the query at
\* the first "?" before it
url_fragment(url) == str_after(url, "#")
url_query(url) == str_after(str_before(url, "#"), "?")
url_path(url) == str_before(str_before(url, "#"), "?")

\* whether a reference starts with a scheme (letters followed by ":" before
\* any "/", "?" or "#")
has_scheme(href) ==
    /\ find(href, ":") > 1
    /\ \A k \in 1..(find(href, ":") - 1) : href[k] \notin {"/", "?", "#"}

\* urllib.parse.parse_qs with its defaults: the pairs (name, value) of the
\* fields that have an "=" and a non-empty value, in order; the values of a
\* name are the values of its pairs (no percent-escape or "+" in the model)
RECURSIVE qs_pairs(_)
qs_pairs(fields) ==
    IF fields = <<>> THEN <<>>
    ELSE LET f == Head(fields)
         IN  (IF find(f, "=") # 0 /\ str_after(f, "=") # <<>>
              THEN << <<str_before(f, "=")>> \o <<str_after(f, "=")>> >>
              ELSE <<>>)
             \o qs_pairs(Tail(fields))
parse_qs(query) == qs_pairs(split(query, "&"))

\* 'NAME' in query_params, and query_params['NAME'][0]
qs_has(query_params, name) ==
    \E k \in 1..Len(query_params) : query_params[k][1] = name
qs_first(query_params, name) ==
    query_params[CHOOSE k \in 1..Len(query_params) :
                     /\ query_params[k][1] = name
                     /\ \A j \in 1..(k - 1) : query_params[j][1] # name][2]

\* urllib.parse.urljoin(base, href) for a base without query and an href
\* without "." and ".." segments that does not start with "/": a reference
\* with a scheme is the result; otherwise the path is merged with the
\* base's, and an empty query or fragment is dropped by urlunparse
urljoin(base, href) ==
    IF has_scheme(href) THEN href
    ELSE (IF url_path(href) = <<>> THEN base ELSE dirname(base) \o url_path(href))
         \o (IF url_query(href) # <<>> THEN <<"?">> \o url_query(href) ELSE <<>>)
         \o (IF url_fragment(href) # <<>> THEN <<"#">> \o url_fragment(href) ELSE <<>>)

\* extract_course_info: an href made absolute
full_url(href) ==
    IF startswith(href, <<"/">>) THEN base_url \o href
    ELSE IF startswith(href, HttpPrefix) THEN href
    ELSE urljoin(start_url, href)

\* the labels of the synthesized titles (the module has them in English)
LessonLabel == <<"Lesson">>
ChapterLabel == <<"Chapter">>

\* lesson_title naming the chapter before the lesson
lesson_title_chapter_first(url) ==
    LET query_params == parse_qs(url_query(url))
    IN  IF qs_has(query_params, CHAPTER_ID)
        THEN ChapterLabel \o <<" ">> \o qs_first(query_params, CHAPTER_ID)
        ELSE IF qs_has(query_params, LESSON_ID)
        THEN LessonLabel \o <<" ">> \o qs_first(query_params, LESSON_ID)
        ELSE LessonLabel

\* extract_course_info: the title synthesized from the query of full_url
lesson_title(url) ==
    LET query_params == parse_qs(url_query(url))
    IN  IF qs_has(query_params, LESSON_ID)
        THEN LessonLabel \o <<" ">> \o qs_first(query_params, LESSON_ID)
        ELSE IF qs_has(query_params, CHAPTER_ID)
        THEN ChapterLabel \o <<" ">> \o qs_first(query_params, CHAPTER_ID)
        ELSE LessonLabel

\* lesson_links without the test `full_url not in [l['url'] ...]`
RECURSIVE lesson_links_all(_, _)
lesson_links_all(links, acc) ==
    IF links = <<>> THEN acc
    ELSE lesson_links_all(Tail(links),
                          Append(acc, [title |-> lesson_title(full_url(Head(links))),
                                       url   |-> full_url(Head(links))]))

\* lesson_links with a new lesson put in front of the ones found before it
RECURSIVE lesson_links_newest_first(_, _)
lesson_links_newest_first(links, acc) ==
    IF links = <<>> THEN acc
    ELSE LET url == full_url(Head(links))
         IN  IF \E k \in 1..Len(acc) : acc[k].url = url
             THEN lesson_links_newest_first(Tail(links), acc)
             ELSE lesson_links_newest_first(
                      Tail(links),
                      <<[title |-> lesson_title(url), url |-> url]>> \o acc)

\* extract_course_info: the loop over parser.links that fills lesson_links
RECURSIVE lesson_links(_, _)
lesson_links(links, acc) ==
    IF links = <<>> THEN acc
    ELSE LET url == full_url(Head(links))
         IN  IF \E k \in 1..Len(acc) : acc[k].url = url
             THEN lesson_links(Tail(links), acc)
             ELSE lesson_links(Tail(links),
                               Append(acc, [title |-> lesson_title(url), url |-> url]))

\* parser.title or 'Курс Bitrix', for a root page without a title tag
course_title == <<"Course">>

extract_course_info(links) ==
    [title |-> course_title, lessons |-> lesson_links(links, <<>>)]

(***************************************************************************)
(* SimpleHTMLParser: the lesson links of a page.                           *)
(***************************************************************************)
DotCss == <<".","c","s","s">>
DotJs == <<".","j","s">>
lesson == <<"l","e","s","s","o","n">>

\* SimpleHTMLParser.handle_starttag for a tag other than title: self.links
\* after the call
SimpleHTMLParser_handle_starttag(links, tag, attrs) ==
    LET href == href_of(attrs)
    IN  IF tag = "a" /\ href # <<>>
           /\ (\/ contains(lower(href), lesson)
               \/ contains(href, LESSON_ID)
               \/ contains(href, CHAPTER_ID)
               \/ (/\ contains(href, <<"/","l","e","a","r","n","i","n","g","/",
                                        "c","o","u","r","s","e","/">>)
                   /\ (\/ contains(href, LESSON_ID \o <<"=">>)
                       \/ contains(href, CHAPTER_ID \o <<"=">>))))
           /\ ~endswith(href, DotCss) /\ ~endswith(href, DotJs)
        THEN Append(links, href)
        ELSE links

\* the hrefs of the anchors of a root page
LPath == <<"/","l">>
RootHrefs ==
    { LPath \o <<"?">> \o LESSON_ID \o <<"=","5">>,
      LPath \o <<"?">> \o CHAPTER_ID \o <<"=","7">>,
      LPath \o <<"?">> \o LESSON_ID \o <<"=","5","&">> \o CHAPTER_ID \o <<"=","7">>,
      LPath \o <<"?">> \o CHAPTER_ID \o <<"=","7","&">> \o LESSON_ID \o <<"=","5">>,
      LPath \o <<"?">> \o CHAPTER_ID \o <<"=","7","&">> \o LESSON_ID \o <<"=">>,
      <<"/","L","e","s","s","o","n">>,
      <<"/">> \o lesson \o DotCss,
      <<"/">> \o LESSON_ID \o DotJs,
      <<"/","a","b","o","u","t">>,
      HttpPrefix \o <<":","/","/","x","/">> \o lesson,
      lesson \o <<"2">>,
      lesson \o DotCss \o <<"?">>,
      HttpPrefix \o <<"x","/">> \o lesson,
      <<>> }

\* the start tags of a root page: anchors with and without href, and a
\* link element
RootTags ==
    { StartTag("a", << <<"href", h>> >>) : h \in RootHrefs }
        \cup { StartTag("a", <<>>),
               StartTag("link", << <<"href", <<"/">> \o lesson>> >>) }

RootPages == SeqsUpTo(RootTags, MaxAnchors)

\* --limit: absent (None) is the empty tuple, N is <<N>>
Limits == {<<>>} \cup {<<n>> : n \in 0..MaxLimit}

\* `if self.page_limit`: None and 0 are false
limit_truthy(page_limit) == page_limit # <<>> /\ page_limit[1] # 0

\* if self.page_limit and self.downloaded_pages >= self.page_limit
limit_reached(page_limit, downloaded) ==
    limit_truthy(page_limit) /\ downloaded >= page_limit[1]

(***************************************************************************)
(* Page contents, as the scanner events of the page's markup.  The empty   *)
(* sequence is the empty string.                                           *)
(***************************************************************************)
MarkerDiv == StartTag("div", << <<"class", MarkerClass>> >>)

PageNoRegion == << StartTag("p", <<>>), Text(<<"a","b">>), EndTag("p") >>

PageRegion == << MarkerDiv, StartTag("h2", <<>>), Text(<<"a","b">>), EndTag("h2"),
                 Text(<<"t","x","t">>), EndTag("div") >>

Contents == {<<>>, PageNoRegion, PageRegion}

\* str(n) for a natural number
Digits == <<"0","1","2","3","4","5","6","7","8","9">>
RECURSIVE str_int(_)
str_int(n) ==
    IF n < 10 THEN <<Digits[n + 1]>>
    ELSE str_int(n \div 10) \o <<Digits[(n % 10) + 1]>>

\* filename.strip('.')
RECURSIVE strip_dots(_)
strip_dots(s) ==
    IF s # <<>> /\ Head(s) = "." THEN strip_dots(Tail(s))
    ELSE IF s # <<>> /\ s[Len(s)] = "." THEN strip_dots(SubSeq(s, 1, Len(s) - 1))
    ELSE s

\* sanitize_filename
sanitize_filename(filename) ==
    LET replaced == [k \in 1..Len(filename) |->
                        IF filename[k] \in {"<", ">", ":", "\"", "/", "\\", "|", "?", "*"}
                        THEN "_" ELSE filename[k]]
        stripped == strip_dots(strip(replaced))
    IN  SubSeq(stripped, 1, IF Len(stripped) < 200 THEN Len(stripped) ELSE 200)

\* "_".join(filename_parts)
RECURSIVE join_parts(_)
join_parts(parts) ==
    IF parts = <<>> THEN <<>>
    ELSE IF Len(parts) = 1 THEN parts[1]
    ELSE parts[1] \o <<"_">> \o join_parts(Tail(parts))

\* save_page_content, lines 392-409 and 427-442: the path of the document of
\* a page below output_dir, `downloaded` being self.downloaded_pages at the
\* call; the title of page_info is never empty
course_md_filename(url, downloaded, title) ==
    LET query_params == parse_qs(url_query(url))
        id_parts ==
            (IF qs_has(query_params, COURSE_ID)
             THEN << <<"course_">> \o qs_first(query_params, COURSE_ID) >>
             ELSE <<>>)
            \o (IF qs_has(query_params, LESSON_ID)
                THEN << <<"lesson_">> \o qs_first(query_params, LESSON_ID) >>
                ELSE <<>>)
        filename_parts ==
            (IF id_parts = <<>> THEN << <<"page_">> \o str_int(downloaded + 1) >>
             ELSE id_parts)
            \o << sanitize_filename(title) >>
        course_subdir ==
            IF qs_has(query_params, COURSE_ID)
            THEN <<"course_">> \o qs_first(query_params, COURSE_ID)
            ELSE <<"course">>
    IN  course_subdir \o <<"/">> \o join_parts(filename_parts) \o <<".md">>

\* save_page_content, lines 415-447, once the page was fed to md_parser:
\* nothing is written for a parser without content
write_md(files, downloaded, url, md_parser, title, write_ok) ==
    IF ~has_courses_right_side_content(md_parser) THEN files
    ELSE IF ~write_ok THEN files
    ELSE Append(files, [url  |-> url,
                        md   |-> get_markdown_content(md_parser, url, title),
                        path |-> course_md_filename(url, downloaded, title)])

\* save_page_content feeding the page to a parser that has processed a
\* page before (PageRegion), in place of a new one
save_page_content_reusing(files, downloaded, url, content, title, write_ok) ==
    write_md(files, downloaded, url,
             feed(feed(MarkdownExtractorParser, PageRegion), content),
             title, write_ok)

\* save_page_content: the documents in storage after the call (the files
\* written so far, in the order of writing); write_ok is whether makedirs,
\* open and write succeed
save_page_content(files, downloaded, url, content, title, write_ok) ==
    write_md(files, downloaded, url, feed(MarkdownExtractorParser, content), title, write_ok)

(***************************************************************************)
(* State.                                                                  *)
(***************************************************************************)
VARIABLES
    \* ---- one MarkdownExtractorParser being fed a page ----
    md_parser,       \* the parser object
    page,            \* the events of the page's markup known in advance
    pos,             \* number of events of `page` already fed
    budget,          \* further events the scanner may produce after `page`
    open_divs,       \* divs opened and not yet closed since the designated
                     \* container was opened, the container included
    marker_opened,   \* whether a div start tag with the marker class was fed
    md_lines,        \* the result of get_markdown_content, <<>> before the call
    rendered,        \* whether get_markdown_content was called
    calls,           \* number of calls of get_markdown_content on md_parser
    \* ---- one run of main() ----
    pc,              \* position in parse_course
    page_limit,      \* self.page_limit
    downloaded_pages,\* self.downloaded_pages
    visited_urls,    \* self.visited_urls
    parser_links,    \* parser.links of the root page
    fetch_ok,        \* whether the last get_page_content returned a parser
    content,         \* content of the page last fetched
    lessons,         \* course_info['lessons']
    i,               \* index (from 1) of the lesson the loop is at
    fetched,         \* URLs requested from the network, in order
    sleeps,          \* number of time.sleep calls
    files,           \* page documents in storage, in the order of writing
    course_info_json,\* course_info.json records written, in order
    sigint           \* whether Ctrl-C was delivered to the process

extractor_vars == <<md_parser, page, pos, budget, open_divs, marker_opened,
                    md_lines, rendered, calls>>

crawl_vars == <<pc, page_limit, downloaded_pages, visited_urls, parser_links,
                fetch_ok, content, lessons, i, fetched, sleeps, files, course_info_json,
                sigint>>

vars == <<md_parser, page, pos, budget, open_divs, marker_opened, md_lines, rendered,
          calls,
          pc, page_limit, downloaded_pages, visited_urls, parser_links,
          fetch_ok, content, lessons, i, fetched, sleeps, files, course_info_json,
          sigint>>

\* BitrixCourseParser.__init__ with no run started
CrawlIdle ==
    /\ pc = "start"
    /\ page_limit = <<>>
    /\ downloaded_pages = 0
    /\ visited_urls = {}
    /\ parser_links = <<>>
    /\ fetch_ok = FALSE
    /\ content = <<>>
    /\ lessons = <<>>
    /\ i = 0
    /\ fetched = <<>>
    /\ sleeps = 0
    /\ files = <<>>
    /\ course_info_json = <<>>
    /\ sigint = FALSE

\* no extractor in use
ExtractorIdle ==
    /\ md_parser = MarkdownExtractorParser
    /\ page = <<>>
    /\ pos = 0
    /\ budget = 0
    /\ open_divs = 0
    /\ marker_opened = FALSE
    /\ md_lines = <<>>
    /\ rendered = FALSE
    /\ calls = 0

(***************************************************************************)
(* The extractor fed event by event.                                       *)
(***************************************************************************)
HttpHref == HttpPrefix \o <<":","/","/","x">>

\* the events the scanner may produce when it is not following a given page
Events ==
    { StartTag("div", <<>>), MarkerDiv, EndTag("div"),
      StartTag("h2", <<>>), EndTag("h2"), StartTag("p", <<>>),
      StartTag("a", << <<"href", HttpHref>> >>),
      StartTag("a", << <<"href", <<"/","y">> >> >>), EndTag("a"),
      StartTag("script", <<>>), EndTag("script"),
      Text(<<" ">>), Text(<<"x">>), Text(<<"a","b">>), Text(<<"a","b","c"," ">>) }

\* the events that may come next
Offered ==
    IF pos < Len(page) THEN {page[pos + 1]}
    ELSE IF budget > 0 THEN Events
    ELSE {}

\* the number of open divs of the designated container after event e
open_divs_after(n, e) ==
    IF e.tag # "div" THEN n
    ELSE IF e.kind = "start"
         THEN IF n > 0 THEN n + 1
              ELSE IF has_courses_right_side(e.attrs) THEN 1 ELSE 0
         ELSE IF n > 0 THEN n - 1 ELSE 0

\* event e is the start tag of a designated container
opens_marker(e) ==
    e.kind = "start" /\ e.tag = "div" /\ has_courses_right_side(e.attrs)

\* the scanner hands event e to its handler
Feed(e) ==
    /\ ~rendered
    /\ e \in Offered
    /\ md_parser' = dispatch(md_parser, e)
    /\ open_divs' = open_divs_after(open_divs, e)
    /\ marker_opened' = (marker_opened \/ opens_marker(e))
    /\ pos' = IF pos < Len(page) THEN pos + 1 ELSE pos
    /\ budget' = IF pos < Len(page) THEN budget ELSE budget - 1
    /\ UNCHANGED <<page, md_lines, rendered, calls>>
    /\ UNCHANGED crawl_vars

HandleStartTag == \E e \in Offered : e.kind = "start" /\ Feed(e)

HandleData == \E e \in Offered : e.kind = "data" /\ Feed(e)

HandleEndTag == \E e \in Offered : e.kind = "end" /\ Feed(e)

\* the URL and title the page under extraction is rendered with
PageUrl == start_url
PageTitle == course_title

\* get_markdown_content emptying self.text_content once it is rendered
GetMarkdownContent_draining ==
    /\ calls < MaxCalls
    /\ pos = Len(page)
    /\ md_lines' = get_markdown_content(md_parser, PageUrl, PageTitle)
    /\ rendered' = TRUE
    /\ calls' = calls + 1
    /\ md_parser' = [md_parser EXCEPT !.text_content = <<>>]
    /\ UNCHANGED <<page, pos, budget, open_divs, marker_opened>>
    /\ UNCHANGED crawl_vars

\* get_markdown_content is called once the whole page was fed (and may be
\* called again): it assigns to no attribute of self
GetMarkdownContent ==
    /\ calls < MaxCalls
    /\ pos = Len(page)
    /\ md_lines' = get_markdown_content(md_parser, PageUrl, PageTitle)
    /\ rendered' = TRUE
    /\ calls' = calls + 1
    /\ UNCHANGED <<md_parser, page, pos, budget, open_divs, marker_opened>>
    /\ UNCHANGED crawl_vars

NextExtract ==
    \/ HandleStartTag
    \/ HandleData
    \/ HandleEndTag
    \/ GetMarkdownContent

\* a fresh parser fed any events the scanner may produce
InitExtract ==
    /\ md_parser = MarkdownExtractorParser
    /\ page = <<>>
    /\ pos = 0
    /\ budget = MaxEvents
    /\ open_divs = 0
    /\ marker_opened = FALSE
    /\ md_lines = <<>>
    /\ rendered = FALSE
    /\ calls = 0
    /\ CrawlIdle

SpecExtract == InitExtract /\ [][NextExtract]_vars

(***************************************************************************)
(* The extractor fed one page of a family of pages: a marker div holding   *)
(* a heading, a paragraph and an anchor.                                   *)
(***************************************************************************)
Intro == <<"I","n","t","r","o">>

Lesson5 == <<"L","e","s","s","o","n"," ","5">>

\* "http://x/l?LESSON_ID=5"
Lesson5Href ==
    HttpPrefix \o <<":","/","/","x","/","l","?">>
               \o <<"L","E","S","S","O","N","_","I","D","=","5">>

SectionPage(heading, paragraph, href, anchor) ==
    << MarkerDiv,
       StartTag("h2", <<>>), Text(heading), EndTag("h2"),
       StartTag("p", <<>>), Text(paragraph), EndTag("p"),
       StartTag("a", << <<"href", href>> >>), Text(anchor), EndTag("a"),
       EndTag("div") >>

SectionTexts == {Intro, <<" ","I","n","t","r","o","\n">>, <<"I","n">>, <<"O","u","t","r","o">>}

SectionPages ==
    { SectionPage(h, p, a, t) :
        h \in SectionTexts, p \in SectionTexts,
        a \in {Lesson5Href, <<"/","l">>}, t \in {Lesson5, <<"5">>} }

\* <div class="courses-right-side"><h2>Intro</h2><p>Intro</p>
\* <a href="http://x/l?LESSON_ID=5">Lesson 5</a></div>
IntroPage == SectionPage(Intro, Intro, Lesson5Href, Lesson5)

InitPage ==
    /\ md_parser = MarkdownExtractorParser
    /\ page \in SectionPages
    /\ pos = 0
    /\ budget = 0
    /\ open_divs = 0
    /\ marker_opened = FALSE
    /\ md_lines = <<>>
    /\ rendered = FALSE
    /\ calls = 0
    /\ CrawlIdle

SpecPage == InitPage /\ [][NextExtract]_vars

(***************************************************************************)
(* The extractor fed one page of a family of pages: a marker div and up to *)
(* MaxRaw further events, script and style tags among them.                *)
(***************************************************************************)
RawEvents ==
    { StartTag("script", <<>>), EndTag("script"),
      StartTag("style", <<>>), EndTag("style"),
      StartTag("h2", <<>>), StartTag("a", << <<"href", HttpHref>> >>), EndTag("a"),
      EndTag("div"), Text(<<"a","b">>) }

RawPages == {<<MarkerDiv>> \o q : q \in SeqsUpTo(RawEvents, MaxRaw)}

\* <div class="courses-right-side"><script>ab</script>ab
ScriptPage ==
    << MarkerDiv, StartTag("script", <<>>), Text(<<"a","b">>), EndTag("script"),
       Text(<<"a","b">>) >>

InitRaw ==
    /\ md_parser = MarkdownExtractorParser
    /\ page \in RawPages
    /\ pos = 0
    /\ budget = 0
    /\ open_divs = 0
    /\ marker_opened = FALSE
    /\ md_lines = <<>>
    /\ rendered = FALSE
    /\ calls = 0
    /\ CrawlIdle

SpecRaw == InitRaw /\ [][NextExtract]_vars

(***************************************************************************)
(* The extractor fed one page of a family of pages: a marker div holding   *)
(* one heading element hN whose text comes in two text events, split by a  *)
(* comment (no event between them) or by an inline child element.          *)
(***************************************************************************)
\* <b>bo</b>
InlineChild == << StartTag("b", <<>>), Text(<<"b","o">>), EndTag("b") >>

HeadingPage(tag, t1, inner, t2) ==
    << MarkerDiv, StartTag(tag, <<>>), Text(t1) >> \o inner
        \o << Text(t2), EndTag(tag), EndTag("div") >>

HeadingTexts == {<<"a","b">>, <<"c","d"," ">>, <<"e">>}

HeadingPages ==
    { HeadingPage(tag, t1, inner, t2) :
        tag \in HeadingTags, t1 \in HeadingTexts,
        inner \in {<<>>, InlineChild}, t2 \in HeadingTexts }

InitHeading ==
    /\ md_parser = MarkdownExtractorParser
    /\ page \in HeadingPages
    /\ pos = 0
    /\ budget = 0
    /\ open_divs = 0
    /\ marker_opened = FALSE
    /\ md_lines = <<>>
    /\ rendered = FALSE
    /\ calls = 0
    /\ CrawlIdle

SpecHeading == InitHeading /\ [][NextExtract]_vars

(***************************************************************************)
(* main(): one run of parse_course, step by step.  A step ends where the   *)
(* code calls the network, the storage or time.sleep.                      *)
(*   pc = "start"           before get_page_content(self.start_url)        *)
(*        "root_fetched"    the root page is fetched, course_info.json is  *)
(*                          to be written                                  *)
(*        "info_saved"      before save_page_content of the root page      *)
(*        "loop"            at the head of the lesson loop                 *)
(*        "lesson_fetch"    slept, before get_page_content(lesson['url'])  *)
(*        "lesson_fetched"  before save_page_content of the lesson         *)
(*        "done"            parse_course returned after the loop           *)
(*        "aborted"         parse_course returned: no root page            *)
(*        "raised"          an exception left parse_course (main prints    *)
(*                          the critical-error line)                       *)
(*        "interrupted"     KeyboardInterrupt caught in main               *)
(***************************************************************************)
Terminal == {"done", "aborted", "raised", "interrupted"}

\* the root page missing, and the run going on to the course info
RootUnavailable_goes_on == pc' = "root_fetched"

\* lines 460-462: `if not parser: ... return`
RootUnavailable == pc' = "aborted"

\* get_page_content, lines 297-303: for a response with no gzip
\* Content-Encoding header, gzip.decompress runs under a bare `except:`;
\* a Ctrl-C delivered while it runs is caught there (swallowed is TRUE), the
\* raw content is decoded and the call returns the page
DecompressGuarded(swallowed) == sigint' = (sigint \/ swallowed)

\* parse_course, lines 458-462: the root page is requested
FetchRoot ==
    /\ pc = "start"
    /\ fetched' = Append(fetched, start_url)
    /\ \/ \* get_page_content returns (None, None)
          /\ fetch_ok' = FALSE
          /\ RootUnavailable
          /\ UNCHANGED <<parser_links, content, sigint>>
       \/ \* the page arrives: its lesson hrefs and its markup
          /\ fetch_ok' = TRUE
          /\ \E swallowed \in BOOLEAN : DecompressGuarded(swallowed)
          /\ pc' = "root_fetched"
          /\ parser_links' \in LinkLists
          /\ content' \in Contents
    /\ UNCHANGED <<page_limit, downloaded_pages, visited_urls, lessons, i,
                   sleeps, files, course_info_json>>
    /\ UNCHANGED extractor_vars

\* parse_course, lines 469-492: the lesson list is extracted and
\* course_info.json is written, outside any try
SaveCourseInfo ==
    /\ pc = "root_fetched"
    /\ lessons' = extract_course_info(parser_links).lessons
    /\ \/ \* makedirs, open and json.dump succeed
          /\ pc' = "info_saved"
          /\ course_info_json' =
                 Append(course_info_json, extract_course_info(parser_links))
       \/ \* one of them raises OSError
          /\ pc' = "raised"
          /\ UNCHANGED course_info_json
    /\ UNCHANGED <<page_limit, downloaded_pages, visited_urls, parser_links,
                   fetch_ok, content, i, fetched, sleeps, files>>
    /\ UNCHANGED sigint
    /\ UNCHANGED extractor_vars

\* parse_course, lines 494-502: the root page is saved and counted
SaveRoot ==
    /\ pc = "info_saved"
    /\ \E write_ok \in BOOLEAN :
           files' = save_page_content(files, downloaded_pages, start_url, content,
                                      course_title, write_ok)
    /\ downloaded_pages' = downloaded_pages + 1
    /\ visited_urls' = visited_urls \cup {start_url}
    /\ i' = 1
    /\ pc' = "loop"
    /\ UNCHANGED <<page_limit, parser_links, fetch_ok, content, lessons, fetched,
                   sleeps, course_info_json>>
    /\ UNCHANGED sigint
    /\ UNCHANGED extractor_vars

\* the for loop has no lesson left
LoopEnd ==
    /\ pc = "loop"
    /\ i > Len(lessons)
    /\ pc' = "done"
    /\ UNCHANGED <<page_limit, downloaded_pages, visited_urls, parser_links,
                   fetch_ok, content, lessons, i, fetched, sleeps, files,
                   course_info_json>>
    /\ UNCHANGED sigint
    /\ UNCHANGED extractor_vars

\* lines 506-508: the page limit ends the loop
LimitBreak ==
    /\ pc = "loop"
    /\ i <= Len(lessons)
    /\ limit_reached(page_limit, downloaded_pages)
    /\ pc' = "done"
    /\ UNCHANGED <<page_limit, downloaded_pages, visited_urls, parser_links,
                   fetch_ok, content, lessons, i, fetched, sleeps, files,
                   course_info_json>>
    /\ UNCHANGED sigint
    /\ UNCHANGED extractor_vars

\* lines 510-511: a lesson already visited is passed over
SkipVisited ==
    /\ pc = "loop"
    /\ i <= Len(lessons)
    /\ ~limit_reached(page_limit, downloaded_pages)
    /\ lessons[i].url \in visited_urls
    /\ i' = i + 1
    /\ UNCHANGED <<pc, page_limit, downloaded_pages, visited_urls, parser_links,
                   fetch_ok, content, lessons, fetched, sleeps, files,
                   course_info_json>>
    /\ UNCHANGED sigint
    /\ UNCHANGED extractor_vars

\* the loop going on to request a lesson whether or not it was visited
Sleep_visited_too ==
    /\ pc = "loop"
    /\ i <= Len(lessons)
    /\ ~limit_reached(page_limit, downloaded_pages)
    /\ sleeps' = sleeps + 1
    /\ pc' = "lesson_fetch"
    /\ UNCHANGED <<page_limit, downloaded_pages, visited_urls, parser_links,
                   fetch_ok, content, lessons, i, fetched, files, course_info_json>>
    /\ UNCHANGED sigint
    /\ UNCHANGED extractor_vars

\* a delay only once a lesson was requested: the first lesson is requested
\* with no time.sleep before it
Sleep_between_lessons ==
    /\ pc = "loop"
    /\ i <= Len(lessons)
    /\ ~limit_reached(page_limit, downloaded_pages)
    /\ lessons[i].url \notin visited_urls
    /\ sleeps' = IF Len(fetched) >= 2 THEN sleeps + 1 ELSE sleeps
    /\ pc' = "lesson_fetch"
    /\ UNCHANGED <<page_limit, downloaded_pages, visited_urls, parser_links,
                   fetch_ok, content, lessons, i, fetched, files, course_info_json>>
    /\ UNCHANGED sigint
    /\ UNCHANGED extractor_vars

\* lines 513-516: time.sleep(self.timeout) before the lesson is requested
Sleep ==
    /\ pc = "loop"
    /\ i <= Len(lessons)
    /\ ~limit_reached(page_limit, downloaded_pages)
    /\ lessons[i].url \notin visited_urls
    /\ sleeps' = sleeps + 1
    /\ pc' = "lesson_fetch"
    /\ UNCHANGED <<page_limit, downloaded_pages, visited_urls, parser_links,
                   fetch_ok, content, lessons, i, fetched, files, course_info_json>>
    /\ UNCHANGED sigint
    /\ UNCHANGED extractor_vars

\* a lesson page missing, and the loop left for it
LessonUnavailable_ends_run == pc' = "done" /\ i' = i

\* line 519: `if lesson_parser and lesson_content` is false, the loop goes
\* to its next lesson
LessonUnavailable == pc' = "loop" /\ i' = i + 1

\* lines 518-519: the lesson page is requested
FetchLesson ==
    /\ pc = "lesson_fetch"
    /\ fetched' = Append(fetched, lessons[i].url)
    /\ \/ \* get_page_content returns (None, None)
          /\ fetch_ok' = FALSE
          /\ LessonUnavailable
          /\ UNCHANGED <<content, sigint>>
       \/ \* the page arrives; an empty lesson_content is passed over
          /\ fetch_ok' = TRUE
          /\ \E swallowed \in BOOLEAN : DecompressGuarded(swallowed)
          /\ content' \in Contents
          /\ IF content' = <<>>
             THEN pc' = "loop" /\ i' = i + 1
             ELSE pc' = "lesson_fetched" /\ i' = i
    /\ UNCHANGED <<page_limit, downloaded_pages, visited_urls, parser_links,
                   lessons, sleeps, files, course_info_json>>
    /\ UNCHANGED extractor_vars

\* SaveLesson writing course_info.json anew after the lesson
SaveLesson_rewriting ==
    /\ pc = "lesson_fetched"
    /\ \E write_ok \in BOOLEAN :
           files' = save_page_content(files, downloaded_pages, lessons[i].url, content,
                                      lessons[i].title, write_ok)
    /\ course_info_json' =
           Append(course_info_json, extract_course_info(parser_links))
    /\ downloaded_pages' = downloaded_pages + 1
    /\ visited_urls' = visited_urls \cup {lessons[i].url}
    /\ i' = i + 1
    /\ pc' = "loop"
    /\ UNCHANGED <<page_limit, parser_links, fetch_ok, content, lessons, fetched,
                   sleeps>>
    /\ UNCHANGED sigint
    /\ UNCHANGED extractor_vars

\* lines 520-527: the lesson page is saved and counted
SaveLesson ==
    /\ pc = "lesson_fetched"
    /\ \E write_ok \in BOOLEAN :
           files' = save_page_content(files, downloaded_pages, lessons[i].url, content,
                                      lessons[i].title, write_ok)
    /\ downloaded_pages' = downloaded_pages + 1
    /\ visited_urls' = visited_urls \cup {lessons[i].url}
    /\ i' = i + 1
    /\ pc' = "loop"
    /\ UNCHANGED <<page_limit, parser_links, fetch_ok, content, lessons, fetched,
                   sleeps, course_info_json>>
    /\ UNCHANGED sigint
    /\ UNCHANGED extractor_vars

\* main, lines 585-588: Ctrl-C during parse_course
KeyboardInterrupt ==
    /\ pc \notin Terminal
    /\ pc' = "interrupted"
    /\ sigint' = TRUE
    /\ UNCHANGED <<page_limit, downloaded_pages, visited_urls, parser_links,
                   fetch_ok, content, lessons, i, fetched, sleeps, files,
                   course_info_json>>
    /\ UNCHANGED extractor_vars

Next ==
    \/ FetchRoot
    \/ SaveCourseInfo
    \/ SaveRoot
    \/ LoopEnd
    \/ LimitBreak
    \/ SkipVisited
    \/ Sleep
    \/ FetchLesson
    \/ SaveLesson
    \/ KeyboardInterrupt

\* BitrixCourseParser.__init__ as main calls it, --limit being any of Limits
Init ==
    /\ ExtractorIdle
    /\ pc = "start"
    /\ page_limit \in Limits
    /\ downloaded_pages = 0
    /\ visited_urls = {}
    /\ parser_links = <<>>
    /\ fetch_ok = FALSE
    /\ content = <<>>
    /\ lessons = <<>>
    /\ i = 0
    /\ fetched = <<>>
    /\ sleeps = 0
    /\ files = <<>>
    /\ course_info_json = <<>>
    /\ sigint = FALSE

Spec == Init /\ [][Next]_vars

(***************************************************************************)
(* The lesson list of a root page: SimpleHTMLParser is fed the start tags  *)
(* of the page one by one, then extract_course_info is applied to its      *)
(* links.  pc = "start" while the page is scanned, "links_extracted" after *)
(* extract_course_info.                                                    *)
(***************************************************************************)
\* SimpleHTMLParser.handle_starttag for the next start tag of the page
ScanStartTag ==
    /\ pc = "start"
    /\ pos < Len(page)
    /\ parser_links' = SimpleHTMLParser_handle_starttag(
                           parser_links, page[pos + 1].tag, page[pos + 1].attrs)
    /\ pos' = pos + 1
    /\ UNCHANGED <<md_parser, page, budget, open_divs, marker_opened, md_lines,
                   rendered, calls>>
    /\ UNCHANGED <<pc, page_limit, downloaded_pages, visited_urls, fetch_ok, content,
                   lessons, i, fetched, sleeps, files, course_info_json, sigint>>

\* extract_course_info(parser) once the page was fed
ExtractCourseInfo ==
    /\ pc = "start"
    /\ pos = Len(page)
    /\ lessons' = extract_course_info(parser_links).lessons
    /\ pc' = "links_extracted"
    /\ UNCHANGED extractor_vars
    /\ UNCHANGED <<page_limit, downloaded_pages, visited_urls, parser_links, fetch_ok,
                   content, i, fetched, sleeps, files, course_info_json, sigint>>

NextLinks ==
    \/ ScanStartTag
    \/ ExtractCourseInfo

InitLinks ==
    /\ md_parser = MarkdownExtractorParser
    /\ page \in RootPages
    /\ pos = 0
    /\ budget = 0
    /\ open_divs = 0
    /\ marker_opened = FALSE
    /\ md_lines = <<>>
    /\ rendered = FALSE
    /\ calls = 0
    /\ CrawlIdle

SpecLinks == InitLinks /\ [][NextLinks]_vars

(***************************************************************************)
(* Claims about the extractor.                                             *)
(***************************************************************************)
\* C1: once the designated container (a marker div) is open with K further
\* divs opened inside it, in_region is true as long as fewer than K+1 div
\* end tags were processed, and false from the (K+1)-th on: the flag is
\* true exactly while the designated container has an open div.
C1_RegionEndsAtMatchingClose ==
    md_parser.in_courses_right_side <=> (open_divs > 0)

\* the text of a recorded heading: its header line without the '#' run and
\* the space after it
RECURSIVE heading_text(_)
heading_text(header) ==
    IF header # <<>> /\ Head(header) = "#" THEN heading_text(Tail(header))
    ELSE Tail(header)

\* the body lines of a rendered document: the lines after the main text
\* header and the blank line that follows it
body_lines(md) ==
    LET at == {k \in 1..Len(md) : md[k] = MainTextHeader}
    IN  IF at = {} THEN <<>>
        ELSE SubSeq(md, (CHOOSE k \in at : \A j \in at : k <= j) + 2, Len(md))

content_section(md) == SubSeq(md, 11, Len(md))

\* C3 as stated: the Intro page yields the heading (3, "Intro"), one link
\* ("Lesson 5", its URL) and no body line.
C3_IntroPageAsStated ==
    (rendered /\ page = IntroPage) =>
        /\ md_parser.headers = <<header_line(3, Intro)>>
        /\ body_lines(md_lines) = <<>>
        /\ \E k \in 1..Len(content_section(md_lines)) :
               /\ contains(content_section(md_lines)[k], Lesson5)
               /\ contains(content_section(md_lines)[k], Lesson5Href)

\* C3 amended: the Intro page yields the heading (3, "Intro"), no link
\* entry (the URL is not kept anywhere in the content section) and exactly
\* one body line, the anchor text in bold; the paragraph "Intro" is
\* suppressed.
C3_IntroPage ==
    (rendered /\ page = IntroPage) =>
        /\ md_parser.headers = <<header_line(3, Intro)>>
        /\ md_parser.text_content = <<Intro, <<"*","*">> \o Lesson5 \o <<"*","*">> >>
        /\ body_lines(md_lines) = << <<"*","*">> \o Lesson5 \o <<"*","*">> >>
        /\ \A k \in 1..Len(content_section(md_lines)) :
               ~contains(content_section(md_lines)[k], Lesson5Href)

\* the Intro page was fed to its last event and rendered
C3_Witness == rendered /\ page = IntroPage /\ pos = Len(IntroPage)

(***************************************************************************)
(* Claims about the coordinator.                                           *)
(***************************************************************************)
\* C4: with a page limit set (0 included), a lesson fetch is never started
\* in a state where downloaded_count >= page_limit.
C4_NoFetchAtLimit ==
    (pc = "lesson_fetch" /\ page_limit # <<>>) => downloaded_pages < page_limit[1]

\* C5: a run with page_limit = 1 whose root page was fetched and lists five
\* lessons ends with exactly one document persisted, the root's, and no
\* lesson URL fetched.
C5_LimitOneKeepsRootOnly ==
    (pc = "done" /\ page_limit = <<1>> /\ Len(lessons) = 5) =>
        /\ Len(files) = 1
        /\ files[1].url = start_url
        /\ fetched = <<start_url>>

\* C6: at every step boundary downloaded_count is the number of documents
\* persisted so far, and every visited URL has its document persisted.
C6_CountedOnlyIfPersisted ==
    /\ downloaded_pages = Len(files)
    /\ \A u \in visited_urls : \E k \in 1..Len(files) : files[k].url = u

\* C7: a lesson fetch that fails adds nothing to visited, leaves
\* downloaded_count and the storage as they were, and leaves the loop at
\* its next lesson.
C7_FailedLessonSkipped ==
    [][ (pc = "lesson_fetch" /\ fetched' # fetched /\ ~fetch_ok') =>
            /\ visited_urls' = visited_urls
            /\ lessons[i].url \notin visited_urls'
            /\ downloaded_pages' = downloaded_pages
            /\ files' = files
            /\ pc' = "loop"
            /\ i' = i + 1 ]_vars

\* a lesson fetch has just failed and the loop has a further lesson
C7_Witness ==
    /\ pc = "loop"
    /\ ~fetch_ok
    /\ Len(fetched) > 1
    /\ fetched[Len(fetched)] = lessons[i - 1].url
    /\ i <= Len(lessons)

\* C8: a failed root fetch ends the run at once, aborted: no course info
\* written, no document persisted, no lesson fetched, no delay,
\* downloaded_count 0 and visited empty.
C8_RootFailureAborts ==
    (fetched = <<start_url>> /\ ~fetch_ok) =>
        /\ pc = "aborted"
        /\ ~ENABLED Next
        /\ course_info_json = <<>>
        /\ files = <<>>
        /\ sleeps = 0
        /\ downloaded_pages = 0
        /\ visited_urls = {}

\* the root page was requested and did not arrive
C8_Witness == fetched = <<start_url>> /\ ~fetch_ok /\ pc = "aborted"

\* C9: no URL is fetched twice, and a lesson whose URL is in visited (the
\* root URL included) is passed over with no fetch, no delay and no change
\* of downloaded_count.
C9_NoRefetch ==
    [][ /\ \A a, b \in 1..Len(fetched') : fetched'[a] = fetched'[b] => a = b
        /\ (pc = "loop" /\ i <= Len(lessons) /\ lessons[i].url \in visited_urls) =>
               /\ fetched' = fetched
               /\ sleeps' = sleeps
               /\ downloaded_pages' = downloaded_pages
               /\ pc' # "lesson_fetch" ]_vars

\* a lesson with the root's URL was passed over, further lessons were
\* fetched, one of them without success
C9_Witness ==
    /\ pc = "done"
    /\ \E k \in 1..Len(lessons) : lessons[k].url = start_url
    /\ i > Len(lessons)
    /\ Len(fetched) = Len(lessons)
    /\ Len(fetched) > Cardinality(visited_urls)

\* C10: no failure after the root fetch leaves parse_course as an error.
C10_NoErrorEscapes == pc # "raised"

\* C11 as stated: a delay is observed only between two successive lesson
\* fetches, so only once a lesson was fetched: none before the root fetch,
\* none between the root fetch and the first lesson fetch, none for a lesson
\* passed over or cut off by the page limit.
C11_DelayOnlyBetweenLessonFetches ==
    [][ /\ (sleeps' # sleeps) =>
               /\ Len(fetched) >= 2
               /\ pc' = "lesson_fetch"
        /\ (pc = "loop" /\ pc' # "lesson_fetch") => sleeps' = sleeps ]_vars

\* C11 amended: the delay is observed once before every lesson fetch, the
\* first included (so also between the root fetch and the first lesson
\* fetch): none before the root fetch, none for a lesson passed over or cut
\* off by the page limit.
C11_DelayBeforeEveryLessonFetch ==
    [][ /\ (sleeps' # sleeps) =>
               /\ Len(fetched) >= 1
               /\ sleeps' = sleeps + 1
               /\ pc' = "lesson_fetch"
        /\ (pc = "lesson_fetch" /\ fetched' # fetched) => sleeps = Len(fetched)
        /\ (pc = "loop" /\ pc' # "lesson_fetch") => sleeps' = sleeps ]_vars

\* two lessons were fetched, each after a delay, and a third lesson was
\* passed over or cut off without one
C11_Witness ==
    /\ pc = "done"
    /\ Len(fetched) = 3
    /\ sleeps = 2
    /\ Len(lessons) >= 3

\* C12: an interrupt delivered in any coordinator state ends the run in a
\* terminal state: the documents persisted before it stay as they were, and
\* no fetch and no write is performed after it.
C12_InterruptEndsRun ==
    [][ /\ sigint' => pc' = "interrupted"
        /\ (sigint' /\ ~sigint) =>
               /\ files' = files
               /\ course_info_json' = course_info_json
        /\ sigint =>
               /\ fetched' = fetched
               /\ files' = files
               /\ course_info_json' = course_info_json ]_vars

\* the resolved URLs of the first n hrefs of links
resolved(links, n) == {full_url(links[k]) : k \in 1..n}

\* the place of the first href of links that resolves to url
first_seen(links, url) ==
    CHOOSE k \in 1..Len(links) :
        /\ full_url(links[k]) = url
        /\ \A j \in 1..(k - 1) : full_url(links[j]) # url

\* C13: link discovery returns one lesson reference per distinct resolved
\* URL of the root page's hrefs, in the order in which each URL first
\* appears; an href that resolves to a URL seen before adds nothing and
\* leaves the entries found so far as they were.
C13_OnePerUrlInFirstSeenOrder ==
    pc = "info_saved" =>
        /\ course_info_json[1].lessons = lessons
        /\ {lessons[k].url : k \in 1..Len(lessons)}
               = resolved(parser_links, Len(parser_links))
        /\ \A a, b \in 1..Len(lessons) :
               /\ lessons[a].url = lessons[b].url => a = b
               /\ a < b => first_seen(parser_links, lessons[a].url)
                              < first_seen(parser_links, lessons[b].url)
        /\ \A n \in 1..Len(parser_links) :
               LET before == extract_course_info(SubSeq(parser_links, 1, n - 1)).lessons
                   after  == extract_course_info(SubSeq(parser_links, 1, n)).lessons
               IN  /\ SubSeq(after, 1, Len(before)) = before
                   /\ full_url(parser_links[n]) \in resolved(parser_links, n - 1)
                          => after = before

\* the root page has two different hrefs that resolve to one URL, then an
\* href of a further lesson
C13_Witness ==
    /\ pc = "info_saved"
    /\ Len(parser_links) = 3
    /\ parser_links[1] # parser_links[2]
    /\ full_url(parser_links[1]) = full_url(parser_links[2])
    /\ Len(lessons) = 2

\* C14: for a page whose markup never opens the designated container,
\* extraction ends with no heading and no body text recorded, whatever the
\* page holds, and save_page_content writes no document for it.
C14_NoMarkerNoDocument ==
    ~marker_opened =>
        /\ md_parser.headers = <<>>
        /\ md_parser.text_content = <<>>
        /\ rendered => body_lines(md_lines) = <<>>
        /\ \A write_ok \in BOOLEAN :
               write_md(<<>>, 0, PageUrl, md_parser, PageTitle, write_ok) = <<>>

\* a page of MaxEvents events without the marker was fed to its end: it
\* left a heading tag open and an http anchor pending
C14_Witness ==
    /\ ~marker_opened
    /\ budget = 0
    /\ page = <<>>
    /\ md_parser.current_tag = "h2"
    /\ md_parser.current_link_href = HttpHref

\* the script and style elements open after the first n events of a page:
\* those whose last tag among the n events is a start tag
raw_open(events, n) ==
    { t \in {"script", "style"} :
        \E k \in 1..n :
            /\ events[k].kind = "start" /\ events[k].tag = t
            /\ \A j \in (k + 1)..n : events[j].tag # t }

\* what the extractor has recorded: headings, body text, pending link text
recorded(self) == <<self.headers, self.text_content, self.current_link_text>>

\* C15: a text event between a script or style start tag and its end tag
\* records nothing (no heading, no link text, no body text), also inside
\* the region; a text event inside the region with no script and no style
\* open is recorded, also after a script or style element was closed.
C15_ScriptStyleTextIgnored ==
    (pos > 0 /\ page[pos].kind = "data") =>
        LET before == feed(MarkdownExtractorParser, SubSeq(page, 1, pos - 1))
        IN  IF raw_open(page, pos - 1) # {}
            THEN recorded(md_parser) = recorded(before)
            ELSE before.in_courses_right_side
                     => recorded(md_parser) # recorded(before)

\* the page <div class="courses-right-side"><script>ab</script>ab was fed:
\* the text in the script left nothing, the text after it is recorded
C15_Witness ==
    /\ page = ScriptPage
    /\ pos = Len(ScriptPage)
    /\ md_parser.text_content = << <<"a","b">> >>

C17_EndsDoneOrAborted ==
    /\ (pc \in Terminal /\ ~ENABLED Next) => pc \in {"done", "aborted", "interrupted"}
    /\ Len(fetched) <= 1 + Len(lessons)
    /\ \A a, b \in 1..Len(fetched) : fetched[a] = fetched[b] => a = b

\* C18: the course metadata record is written only once the root page was
\* fetched and its lessons extracted, with the full lesson list, before
\* the root page is saved and before any lesson is fetched; it is in
\* storage, once, in every run that goes past that write, and it is never
\* written again.
C18_CourseInfoWrittenOnce ==
    [][ /\ course_info_json' # course_info_json =>
               /\ course_info_json = <<>>
               /\ fetched = <<start_url>> /\ fetch_ok
               /\ files = <<>> /\ downloaded_pages = 0
               /\ course_info_json' = <<extract_course_info(parser_links)>>
               /\ lessons' = course_info_json'[1].lessons
        /\ (fetched' # fetched /\ fetched # <<>>) => Len(course_info_json) = 1
        /\ (files' # files \/ downloaded_pages' # downloaded_pages)
               => Len(course_info_json) = 1 ]_vars

\* a run that wrote the record of a course of two lessons or more and
\* fetched two of them
C18_Witness ==
    /\ pc = "done"
    /\ Len(course_info_json) = 1
    /\ Len(course_info_json[1].lessons) >= 2
    /\ Len(fetched) >= 3

\* the content section of the document of PageRegion
DocRegion ==
    << header_line(3, <<"a","b">>), <<>>, MainTextHeader, <<>>, <<"t","x","t">> >>

\* C19: the extractor is created fresh for each page: a document written
\* holds the headings and body lines of its own page's markup only, as an
\* extractor in its initial state records them, whatever pages were
\* processed before it; a page without the region, processed after a
\* page with one, still leaves no document.
C19_FreshExtractorPerPage ==
    [][ files' # files =>
            LET d == files'[Len(files')]
                fresh == feed(MarkdownExtractorParser, content)
            IN  /\ files' = Append(files, d)
                /\ content_section(d.md)
                       = content_section(get_markdown_content(fresh, d.url, <<>>))
                /\ content = PageRegion /\ content_section(d.md) = DocRegion ]_vars

\* the root page and a lesson page, each with a region, were saved, then
\* a lesson page without a region was passed over
C19_Witness ==
    /\ Len(files) = 2
    /\ content_section(files[1].md) = DocRegion
    /\ content_section(files[2].md) = DocRegion
    /\ content = PageNoRegion
    /\ pc = "done"
    /\ downloaded_pages = 3

\* the place of the first line of a document equal to `line`, 0 if none
first_line(md, line) ==
    LET at == {k \in 1..Len(md) : md[k] = line}
    IN  IF at = {} THEN 0 ELSE CHOOSE k \in at : \A j \in at : k <= j

\* the header of the links subsection ("### Ссылки")
LinksHeader == <<"### Links">>

\* the recorded text of an anchor, as the extractor keeps it
is_anchor_text(t) == Len(t) > 4 /\ SubSeq(t, 1, 2) = <<"*", "*">>

\* C20: the rendered document has its sections in this order: the H1
\* title; the Metadata section, holding the source URL and the retrieval
\* timestamp; the Content section with the headings in recorded order;
\* the Links subsection when there is at least one link; the Main text
\* subsection, one body line per line.
C20_SectionOrder ==
    rendered =>
        LET rule    == first_line(md_lines, <<"---">>)
            urlline == <<"- **URL:** ">> \o PageUrl
            nh      == Len(md_parser.headers)
            links   == first_line(md_lines, LinksHeader)
            main    == first_line(md_lines, MainTextHeader)
        IN  /\ md_lines[1] = <<"# ">> \o PageTitle
            /\ md_lines[3] = <<"## Metadata">>
            /\ rule > 4
            /\ \E k \in 4..(rule - 1) : md_lines[k] = urlline
            /\ \E k \in 4..(rule - 1) : md_lines[k] # <<>> /\ md_lines[k] # urlline
            /\ md_lines[rule + 2] = <<"## Content">>
            /\ SubSeq(md_lines, rule + 4, rule + 3 + nh) = md_parser.headers
            /\ (\E t \in 1..Len(md_parser.text_content) :
                    is_anchor_text(md_parser.text_content[t]))
                   => links > rule + 3 + nh
            /\ main > 0 => /\ main > links
                           /\ main > rule + 3 + nh
                           /\ body_lines(md_lines)
                                  = cleaned_lines(md_parser.text_content,
                                                  md_parser.headers)

(***************************************************************************)
(* Claims about the extractor's handlers.                                  *)
(***************************************************************************)
\* C21: a div start tag processed inside the region raises the nesting
\* depth by exactly one, also when the div carries the marker; outside the
\* region a marker div sets the depth to 1 and any other div leaves it.
C21_InnerDivRaisesDepth ==
    [][ \A e \in Offered :
            (e.kind = "start" /\ e.tag = "div" /\ Feed(e)) =>
                IF md_parser.in_courses_right_side
                THEN md_parser'.div_nesting_level = md_parser.div_nesting_level + 1
                ELSE md_parser'.div_nesting_level =
                         IF opens_marker(e) THEN 1 ELSE md_parser.div_nesting_level
      ]_vars

\* C22: one region per page: once the designated container was opened and
\* closed (no div of it is open, in_region is false again), no later event
\* sets in_region to true.
C22_SingleRegion ==
    [][ (marker_opened /\ open_divs = 0 /\ ~md_parser.in_courses_right_side)
            => ~md_parser'.in_courses_right_side ]_vars

\* <div class="courses-right-side"><a href="http://x">ab</div>ab: the
\* second text comes outside the region, with the anchor's text pending
TextAfterRegionPage ==
    << MarkerDiv, StartTag("a", << <<"href", HttpHref>> >>), Text(<<"a","b">>),
       EndTag("div"), Text(<<"a","b">>) >>

\* C23: a text event processed while in_region is false leaves the
\* recorded headings, the recorded body text and the pending anchor text
\* unchanged, whatever the current tag is.
C23_TextOutsideRegionIgnored ==
    (pos > 0 /\ page[pos].kind = "data") =>
        LET before == feed(MarkdownExtractorParser, SubSeq(page, 1, pos - 1))
        IN  ~before.in_courses_right_side
                => recorded(md_parser) = recorded(before)

\* the text after the closed region was fed while an anchor's text was
\* pending
C23_Witness ==
    /\ page = TextAfterRegionPage
    /\ pos = Len(TextAfterRegionPage)
    /\ ~md_parser.in_courses_right_side
    /\ md_parser.current_link_text = <<"a","b">>

\* the text of the text events of a page, trimmed and joined in order
RECURSIVE fragments(_)
fragments(events) ==
    IF events = <<>> THEN <<>>
    ELSE (IF Head(events).kind = "data" THEN strip(Head(events).data) ELSE <<>>)
             \o fragments(Tail(events))

\* C24: for one heading element in the region whose text comes as several
\* text events, exactly one heading is recorded, made of all the fragments
\* in order, and no fragment is recorded as body text.
C24_HeadingFragmentsJoined ==
    pos = Len(page) =>
        /\ Len(md_parser.headers) = 1
        /\ heading_text(md_parser.headers[1]) = fragments(page)
        /\ md_parser.text_content = <<>>

\* the level of a recorded heading: the length of its run of '#'
RECURSIVE level_of(_)
level_of(header) ==
    IF header # <<>> /\ Head(header) = "#" THEN 1 + level_of(Tail(header)) ELSE 0

\* C25: text directly under an hN tag inside the region is recorded at
\* level N + 1: every recorded heading of a page whose heading element is
\* hN has level N + 1, so a level in 2..7.
C25_HeadingLevelPlusOne ==
    \A h \in 1..Len(md_parser.headers) :
        LET header == md_parser.headers[h]
            level  == level_of(header)
        IN  /\ level = HeadingDigit[page[2].tag] + 1
            /\ level \in 2..7
            /\ header[level + 1] = " "

\* a page with an h6 element was fed: its heading is recorded at level 7
C25_Witness ==
    /\ page[2].tag = "h6"
    /\ pos = Len(page)
    /\ md_parser.headers # <<>>
    /\ level_of(md_parser.headers[1]) = 7

\* C26: in-region text is added to the pending anchor text only when the
\* current tag is an anchor with an http href; in any other context (after
\* an inner tag of the anchor, under an anchor with a relative href, after
\* an anchor that was never closed) the text is recorded as heading or
\* body text.
C26_AnchorTextOnlyUnderAnchor ==
    [][ \A e \in Offered :
            (e.kind = "data" /\ Feed(e)) =>
                /\ md_parser'.current_link_text # md_parser.current_link_text
                       => /\ md_parser.current_tag = "a"
                          /\ startswith(md_parser.current_link_href, HttpPrefix)
                /\ (/\ md_parser.in_courses_right_side
                    /\ ~md_parser.in_script /\ ~md_parser.in_style
                    /\ strip(e.data) # <<>>
                    /\ md_parser.current_tag # "a")
                       => \/ md_parser'.headers # md_parser.headers
                          \/ md_parser'.text_content # md_parser.text_content
      ]_vars

\* C27 as stated: at an anchor end tag nothing is appended to the body
\* lines (non-empty pending text goes, with the href, to a links sequence
\* as one entry).
C27_AnchorEndAsStated ==
    [][ \A e \in Offered :
            (e.kind = "end" /\ e.tag = "a" /\ Feed(e)) =>
                md_parser'.text_content = md_parser.text_content ]_vars

\* C27 amended: at an anchor end tag with an http anchor pending and
\* non-empty pending text, exactly one entry, the trimmed pending text in
\* bold, is appended to the body text, and the href is not kept; with
\* empty pending text, or with no anchor pending, nothing is appended
\* anywhere.
C27_AnchorEndAppendsBoldText ==
    [][ \A e \in Offered :
            (e.kind = "end" /\ e.tag = "a" /\ Feed(e)) =>
                /\ md_parser'.headers = md_parser.headers
                /\ IF /\ md_parser.current_link_href # NoAttr
                      /\ md_parser.current_link_text # <<>>
                   THEN /\ md_parser'.text_content =
                               Append(md_parser.text_content,
                                      <<"*", "*">>
                                          \o strip(md_parser.current_link_text)
                                          \o <<"*", "*">>)
                        /\ ~contains(md_parser'.text_content[Len(md_parser'.text_content)],
                                     md_parser.current_link_href)
                   ELSE md_parser'.text_content = md_parser.text_content ]_vars

\* an anchor with pending text was closed inside the region: the body
\* text holds the one bold entry
C27_Witness ==
    /\ budget = 0
    /\ Len(md_parser.text_content) = 1
    /\ is_anchor_text(md_parser.text_content[1])
    /\ md_parser.current_link_href = NoAttr
    /\ md_parser.current_tag = None
    /\ md_parser.in_courses_right_side
    /\ md_parser.headers = <<>>

\* an anchor is pending: the object has the attribute current_link_href
pending(self) == self.current_link_href # NoAttr

\* C28: after an anchor end tag no pending anchor state is left, neither
\* href nor text buffer; nothing but an anchor end tag ends a pending
\* anchor; an http anchor start tag (outside script and style) leaves the
\* text buffer empty.
C28_PendingAnchorCleared ==
    [][ \A e \in Offered :
            Feed(e) =>
                /\ (e.kind = "end" /\ e.tag = "a") =>
                       /\ md_parser'.current_link_href = NoAttr
                       /\ md_parser'.current_link_text = NoAttr
                /\ (pending(md_parser) /\ ~pending(md_parser')) =>
                       (e.kind = "end" /\ e.tag = "a")
                /\ (/\ e.kind = "start" /\ e.tag = "a"
                    /\ startswith(href_of(e.attrs), HttpPrefix)
                    /\ ~md_parser.in_script /\ ~md_parser.in_style) =>
                       /\ md_parser'.current_link_href = href_of(e.attrs)
                       /\ md_parser'.current_link_text = <<>>
                /\ pending(md_parser') <=> md_parser'.current_link_text # NoAttr
      ]_vars

\* an anchor with text was closed and a later http anchor was opened: its
\* text buffer is empty
C28_Witness ==
    /\ Len(md_parser.text_content) = 1
    /\ is_anchor_text(md_parser.text_content[1])
    /\ md_parser.current_tag = "a"
    /\ md_parser.current_link_href = HttpHref
    /\ md_parser.current_link_text = <<>>

RECURSIVE kept_fragments(_, _)
kept_fragments(text_content, headers) ==
    IF text_content = <<>> THEN <<>>
    ELSE LET line == strip(Head(text_content))
             rest == kept_fragments(Tail(text_content), headers)
         IN  IF Len(line) > 1
                /\ \A h \in 1..Len(headers) : line # heading_text(headers[h])
             THEN <<line>> \o rest
             ELSE rest

\* C30: the renderer removes a body line only when it duplicates a heading:
\* every fragment recorded in the region whose trimmed length exceeds one
\* and which is not character-identical to the text of a recorded heading
\* is in the rendered body, in document order.
C30_OnlyHeadingDuplicatesRemoved ==
    rendered =>
        body_lines(md_lines)
            = kept_fragments(md_parser.text_content, md_parser.headers)

(***************************************************************************)
(* Claims about the lesson list.                                           *)
(***************************************************************************)
\* the condition under which an href is a lesson candidate
is_candidate(href) ==
    /\ \/ contains(lower(href), lesson)
       \/ contains(href, LESSON_ID)
       \/ contains(href, CHAPTER_ID)
    /\ ~endswith(href, DotCss)
    /\ ~endswith(href, DotJs)

\* the hrefs of the anchors among the given start tags that are candidates
RECURSIVE candidates(_)
candidates(tags) ==
    IF tags = <<>> THEN <<>>
    ELSE (IF Head(tags).tag = "a" /\ is_candidate(href_of(Head(tags).attrs))
          THEN <<href_of(Head(tags).attrs)>> ELSE <<>>)
         \o candidates(Tail(tags))

ends_css_js(url) == endswith(url, DotCss) \/ endswith(url, DotJs)

\* C31: the links collected from the start tags scanned so far
\* are the hrefs of the anchors whose href contains "lesson" in any letter
\* case, LESSON_ID or CHAPTER_ID and ends neither in .css nor in .js, and
\* no collected href and no URL of the lesson list ends in .css or .js.
C31_CandidatesAsStated ==
    /\ parser_links = candidates(SubSeq(page, 1, pos))
    /\ \A n \in 1..Len(parser_links) : ~ends_css_js(parser_links[n])
    /\ \A k \in 1..Len(lessons) : ~ends_css_js(lessons[k].url)

\* the URL an href stands for on the root page: the href itself when it has
\* a scheme, the root page's scheme and host followed by the href when it
\* starts with "/", the standard resolution against the root URL otherwise
resolution(href) ==
    IF has_scheme(href) THEN href
    ELSE IF startswith(href, <<"/">>) THEN base_url \o href
    ELSE urljoin(start_url, href)

\* C32: every URL of the lesson list is absolute and is the resolution of
\* a collected href: the href itself when it is scheme-prefixed, the root
\* page's scheme and host followed by the href when it is path-absolute,
\* the standard relative resolution against the root URL otherwise.
C32_LessonUrlsAbsolute ==
    pc = "links_extracted" =>
        /\ \A k \in 1..Len(lessons) : has_scheme(lessons[k].url)
        /\ {lessons[k].url : k \in 1..Len(lessons)}
               = {resolution(parser_links[n]) : n \in 1..Len(parser_links)}

\* the values given to a parameter in the query of a URL, in order: what
\* follows "name=" in the fields of the query, the empty value included
RECURSIVE field_values(_, _)
field_values(fields, name) ==
    IF fields = <<>> THEN <<>>
    ELSE (IF startswith(Head(fields), name \o <<"=">>)
          THEN <<SubSeq(Head(fields), Len(name) + 2, Len(Head(fields)))>>
          ELSE <<>>)
         \o field_values(Tail(fields), name)
param_values(url, name) == field_values(split(url_query(url), "&"), name)

\* the values of a parameter that are not empty
param_values_given(url, name) ==
    SelectSeq(param_values(url, name), LAMBDA v : v # <<>>)

\* C33 as stated: the title of a lesson is the lesson label with the
\* LESSON_ID value whenever the query of its URL has LESSON_ID, otherwise
\* the chapter label with the CHAPTER_ID value when the query has
\* CHAPTER_ID, otherwise the generic label.
C33_TitleAsStated ==
    \A k \in 1..Len(lessons) :
        LET url == lessons[k].url
        IN  lessons[k].title =
                IF param_values(url, LESSON_ID) # <<>>
                THEN LessonLabel \o <<" ">> \o param_values(url, LESSON_ID)[1]
                ELSE IF param_values(url, CHAPTER_ID) # <<>>
                THEN ChapterLabel \o <<" ">> \o param_values(url, CHAPTER_ID)[1]
                ELSE LessonLabel

\* C33 amended: a parameter counts as present only with a value that is not
\* empty.  The title of a lesson is the lesson label with the first such
\* LESSON_ID value when there is one (a CHAPTER_ID next to it changes
\* nothing), otherwise the chapter label with the first such CHAPTER_ID
\* value when there is one, otherwise the generic label; it is a function
\* of the URL alone.
C33_TitleFromQuery ==
    \A k \in 1..Len(lessons) :
        LET url == lessons[k].url
        IN  lessons[k].title =
                IF param_values_given(url, LESSON_ID) # <<>>
                THEN LessonLabel \o <<" ">> \o param_values_given(url, LESSON_ID)[1]
                ELSE IF param_values_given(url, CHAPTER_ID) # <<>>
                THEN ChapterLabel \o <<" ">> \o param_values_given(url, CHAPTER_ID)[1]
                ELSE LessonLabel

\* a lesson list with a lesson whose URL has CHAPTER_ID=7 before
\* LESSON_ID=5, titled after the lesson, and a lesson whose URL has
\* CHAPTER_ID=7 before an empty LESSON_ID, titled after the chapter
C33_Witness ==
    /\ pc = "links_extracted"
    /\ Len(lessons) = 2
    /\ param_values(lessons[1].url, CHAPTER_ID) = << <<"7">> >>
    /\ param_values(lessons[1].url, LESSON_ID) = << <<"5">> >>
    /\ lessons[1].title = LessonLabel \o <<" ", "5">>
    /\ param_values(lessons[2].url, LESSON_ID) = << <<>> >>
    /\ lessons[2].title = ChapterLabel \o <<" ", "7">>

(***************************************************************************)
(* Claims about the order of the run and its storage.                      *)
(***************************************************************************)
\* C34: the first fetch of a run is of the root URL; every later fetch is
\* of the URL of a lesson discovered on the root page, not fetched before,
\* found on the root page after the lesson fetched last; a fetch starts
\* only when no page is in hand, the page fetched before it, if it
\* arrived, having gone through save_page_content.
C34_FetchOrder ==
    [][ fetched' # fetched =>
            LET url == fetched'[Len(fetched')]
                last == fetched[Len(fetched)]
            IN  /\ fetched' = Append(fetched, url)
                /\ pc \in {"start", "lesson_fetch"}
                /\ fetched = <<>> => url = start_url
                /\ fetched # <<>> =>
                       /\ url \in resolved(parser_links, Len(parser_links))
                       /\ \A k \in 1..Len(fetched) : fetched[k] # url
                       /\ \E k \in 1..Len(lessons) : lessons[k].url = url
                       /\ (fetch_ok /\ (content # <<>> \/ Len(fetched) = 1))
                              => last \in visited_urls
                /\ Len(fetched) >= 2 =>
                       first_seen(parser_links, last) < first_seen(parser_links, url)
      ]_vars

\* a run that fetched the root page and two of three discovered lessons,
\* the lesson passed over being the root page itself
C34_Witness ==
    /\ pc = "done"
    /\ Len(lessons) = 3
    /\ Len(fetched) = 3
    /\ \E k \in 1..3 : lessons[k].url = start_url
    /\ Len(files) = 3

(***************************************************************************)
(* Further claims about the extractor.                                     *)
(***************************************************************************)
\* C35: after every extractor event in_region is true exactly when the
\* nesting depth is at least 1, and the depth is not negative; a div end
\* tag processed outside the region changes neither of the two.
C35_RegionIffDepthPositive ==
    [][ \A e \in Offered :
            Feed(e) =>
                /\ md_parser'.in_courses_right_side
                       <=> (md_parser'.div_nesting_level >= 1)
                /\ md_parser'.div_nesting_level >= 0
                /\ (e.kind = "end" /\ e.tag = "div"
                        /\ ~md_parser.in_courses_right_side) =>
                       /\ ~md_parser'.in_courses_right_side
                       /\ md_parser'.div_nesting_level = md_parser.div_nesting_level
      ]_vars

\* six events were fed, among them the start tag of the designated
\* container; every div of it was closed again, in_region is false at
\* depth 0
C35_Witness ==
    /\ marker_opened
    /\ ~md_parser.in_courses_right_side
    /\ md_parser.div_nesting_level = 0
    /\ open_divs = 0
    /\ budget = MaxEvents - 6

\* C36: at the head of the lesson loop and at the end of the run,
\* downloaded_pages is the number of URLs in visited_urls, and visited_urls
\* holds only the root URL and URLs of discovered lessons; a URL joins
\* visited_urls only as the URL fetched last, its fetch having returned
\* the page, and the count goes up by one with it.
C36_CountIsVisited ==
    [][ /\ pc' \in {"loop"} \cup Terminal =>
               /\ downloaded_pages' = Cardinality(visited_urls')
               /\ visited_urls' \subseteq
                      {start_url} \cup {lessons'[k].url : k \in 1..Len(lessons')}
        /\ visited_urls' # visited_urls =>
               /\ fetch_ok
               /\ fetched # <<>>
               /\ fetched[Len(fetched)] \notin visited_urls
               /\ visited_urls' = visited_urls \cup {fetched[Len(fetched)]}
               /\ downloaded_pages' = downloaded_pages + 1
      ]_vars

\* the end of a run in which the root page and one lesson were saved, a
\* second lesson was requested in vain and a third one, the root page
\* itself, was passed over
C36_Witness ==
    /\ pc = "done"
    /\ Len(lessons) = 3
    /\ Len(fetched) = 3
    /\ downloaded_pages = 2
    /\ Cardinality(visited_urls) = 2
    /\ \E k \in 1..3 : lessons[k].url = start_url

\* C37: the rendered document has the main text header only when at least
\* one body line follows it: when every recorded text fragment is filtered
\* out, there is no main text header.
C37_MainTextHeaderHasBody ==
    rendered =>
        ((\E k \in 1..Len(md_lines) : md_lines[k] = MainTextHeader)
            => body_lines(md_lines) # <<>>)

\* C38: two pages with different URLs are never written to the same file
\* path: the documents written in a run have pairwise different paths, so
\* the number of stored documents is the number of pages written.
C38_OnePathPerPage ==
    /\ \A a, b \in 1..Len(files) :
           files[a].url # files[b].url => files[a].path # files[b].path
    /\ Cardinality({files[k].path : k \in 1..Len(files)}) = Len(files)
====
